---- MODULE Spec2Model ----
(***************************************************************************)
(* Model of background.js: the selection-to-Markdown converter that is     *)
(* injected into the page (getMarkdownFromSelection with its helpers       *)
(* toAbsoluteUrl and domToMarkdown), its whitespace clean-up, and the      *)
(* context-menu click handler that saves the result.                       *)
(*                                                                         *)
(* JavaScript strings are sequences of one-character strings, so that      *)
(* concatenation, trim, startsWith and the regular-expression replace are  *)
(* computed character by character.  null / undefined are one-element      *)
(* sequences holding a multi-character token, which no string over single  *)
(* characters can equal.                                                   *)
(***************************************************************************)
EXTENDS Integers, Sequences, FiniteSets, TLC

VARIABLES
    fRaw, fOnce, fTwice, fStage,          \* clean-up applied to a raw string
    uStr, uBase, uOut, uStage,            \* toAbsoluteUrl applied to a (urlStr, baseURI)
    cSel, cBase, cRaw, cOut, cStage,      \* getMarkdownFromSelection on a selection
    invs, downloads, warnings, rejected, injections   \* the click handler

fvars == <<fRaw, fOnce, fTwice, fStage>>
uvars == <<uStr, uBase, uOut, uStage>>
cvars == <<cSel, cBase, cRaw, cOut, cStage>>
hvars == <<invs, downloads, warnings, rejected, injections>>
vars == <<fvars, uvars, cvars, hvars>>

----------------------------------------------------------------------------
(* Bounds *)

\* longest raw string the clean-up is applied to
MaxLen == 6

----------------------------------------------------------------------------
(* JavaScript values and string primitives *)

Null == <<"null">>
Undefined == <<"undefined">>
Empty == <<>>

\* !v for a value that is a string, null or undefined
Falsy(v) == v = Null \/ v = Undefined \/ v = Empty

\* a || b
OrElse(a, b) == IF Falsy(a) THEN b ELSE a

NL == "\n"

\* the characters String.prototype.trim removes, among those the model uses
WhiteSpace == {" ", "\n", "\t"}

SeqsUpTo(S, n) == UNION {[1..k -> S] : k \in 0..n}

\* s.startsWith(p)
StartsWith(s, p) == Len(s) >= Len(p) /\ SubSeq(s, 1, Len(p)) = p

\* s.slice(n) (1-based: everything after the first n characters)
Drop(s, n) == SubSeq(s, n + 1, Len(s))

\* s.trim()
Trim(s) ==
    LET keep == {i \in 1..Len(s) : s[i] \notin WhiteSpace}
    IN  IF keep = {} THEN Empty
        ELSE LET lo == CHOOSE i \in keep : \A j \in keep : i <= j
                 hi == CHOOSE i \in keep : \A j \in keep : j <= i
             IN  SubSeq(s, lo, hi)

\* the position of s[i] within its run of newlines, counted from 1 (0 when
\* s[i] is not a newline)
RunPosition(s, i) == Cardinality({j \in 1..i : \A k \in j..i : s[k] = NL})

Indices(s) == [i \in 1..Len(s) |-> i]

\* the characters of s at the indices kept, in order
Pick(s, kept) == [j \in 1..Len(kept) |-> s[kept[j]]]

\* s.replace(/\n{3,}/g, "\n\n"): a greedy match takes a whole run of 3 or
\* more newlines and leaves two, so what remains of s is every character
\* but the third and later newlines of a run
CollapseNewlines(s) ==
    Pick(s, SelectSeq(Indices(s), LAMBDA i : RunPosition(s, i) <= 2))

\* a clean-up without the trim
FinalizeNoTrim(markdown) == CollapseNewlines(markdown)

\* a clean-up that replaces only a run of exactly three newlines at a time
CollapseTriples(s) ==
    Pick(s, SelectSeq(Indices(s),
                      LAMBDA i : s[i] # NL \/ RunPosition(s, i) % 3 # 0))

FinalizeTriples(markdown) == Trim(CollapseTriples(markdown))

\* markdown.replace(/\n{3,}/g, "\n\n").trim()
Finalize(markdown) == Trim(CollapseNewlines(markdown))

----------------------------------------------------------------------------
(* new URL(urlStr, baseURI).href: the browser's URL parser, for URLs without *)
(* userinfo, port or dot segments, and with an opaque path after every       *)
(* scheme other than http and https                                          *)

UpperAlpha == <<"A", "B", "C", "D", "E", "F", "G", "H", "I", "J", "K", "L", "M",
                "N", "O", "P", "Q", "R", "S", "T", "U", "V", "W", "X", "Y", "Z">>
LowerAlpha == <<"a", "b", "c", "d", "e", "f", "g", "h", "i", "j", "k", "l", "m",
                "n", "o", "p", "q", "r", "s", "t", "u", "v", "w", "x", "y", "z">>
Digits == {"0", "1", "2", "3", "4", "5", "6", "7", "8", "9"}

IsUpper(c) == \E i \in DOMAIN UpperAlpha : UpperAlpha[i] = c
IsLower(c) == \E i \in DOMAIN LowerAlpha : LowerAlpha[i] = c
IsAlpha(c) == IsUpper(c) \/ IsLower(c)

LowerChar(c) ==
    IF IsUpper(c) THEN LowerAlpha[CHOOSE i \in DOMAIN UpperAlpha : UpperAlpha[i] = c]
    ELSE c

\* s.toLowerCase()
ToLowerCase(s) == [i \in DOMAIN s |-> LowerChar(s[i])]

\* index of the first character of s that is in S, Len(s) + 1 when there is none
IndexOfAny(s, S) ==
    IF \E i \in DOMAIN s : s[i] \in S
    THEN CHOOSE i \in DOMAIN s : s[i] \in S /\ \A j \in 1..(i - 1) : s[j] \notin S
    ELSE Len(s) + 1

\* index of the last "/" of s, 0 when there is none
LastSlash(s) ==
    IF \E i \in DOMAIN s : s[i] = "/"
    THEN CHOOSE i \in DOMAIN s : s[i] = "/" /\ \A j \in (i + 1)..Len(s) : s[j] # "/"
    ELSE 0

C0OrSpace == {" ", "\n", "\t"}
TabOrNewline == {"\n", "\t"}
SpecialSchemes == {<<"h", "t", "t", "p">>, <<"h", "t", "t", "p", "s">>}
ForbiddenHost == {" ", "#", "/", ":", "<", ">", "?", "@", "[", "\\", "]", "^", "|", "%"}

\* leading and trailing C0 control or space characters removed
StripC0Space(s) ==
    LET keep == {i \in DOMAIN s : s[i] \notin C0OrSpace}
    IN  IF keep = {} THEN Empty
        ELSE LET lo == CHOOSE i \in keep : \A j \in keep : i <= j
                 hi == CHOOSE i \in keep : \A j \in keep : j <= i
             IN  SubSeq(s, lo, hi)

\* every tab and newline removed
RemoveTabNewline(s) == SelectSeq(s, LAMBDA c : c \notin TabOrNewline)

\* percent-encoding of the path, query and fragment (of the characters the
\* model uses, the space is the one that is encoded)
RECURSIVE PercentEncode(_)
PercentEncode(s) ==
    IF Len(s) = 0 THEN Empty
    ELSE IF Len(s) = 1
         THEN (IF s[1] = " " THEN <<"%", "2", "0">> ELSE <<s[1]>>)
         ELSE PercentEncode(SubSeq(s, 1, Len(s) \div 2))
              \o PercentEncode(SubSeq(s, Len(s) \div 2 + 1, Len(s)))

EncodeOpt(v) == IF v = Null THEN Null ELSE PercentEncode(v)

\* s up to its first "#"
BeforeHash(s) == SubSeq(s, 1, IndexOfAny(s, {"#"}) - 1)

\* s up to its first "?" or "#"
PathPart(s) == SubSeq(s, 1, IndexOfAny(s, {"?", "#"}) - 1)

\* what follows the first "?" of s, up to its first "#"; Null without a "?"
QueryPart(s) ==
    IF IndexOfAny(BeforeHash(s), {"?"}) > Len(BeforeHash(s)) THEN Null
    ELSE Drop(BeforeHash(s), IndexOfAny(BeforeHash(s), {"?"}))

\* what follows the first "#" of s; Null without a "#"
FragmentPart(s) ==
    IF IndexOfAny(s, {"#"}) > Len(s) THEN Null ELSE Drop(s, IndexOfAny(s, {"#"}))

\* s cut into path, ?query and #fragment (Null for an absent part), the
\* query and the fragment percent-encoded
SplitTail(s) ==
    [path |-> PathPart(s), query |-> EncodeOpt(QueryPart(s)),
     fragment |-> EncodeOpt(FragmentPart(s))]

Failure ==
    [failure |-> TRUE, scheme |-> Empty, opaque |-> FALSE, host |-> Empty,
     path |-> Empty, query |-> Null, fragment |-> Null]

\* the leading slashes and backslashes of s removed
RECURSIVE SkipSlashes(_)
SkipSlashes(s) ==
    IF s # Empty /\ Head(s) \in {"/", "\\"} THEN SkipSlashes(Tail(s)) ELSE s

\* an http(s) URL of the given host, t being the split rest
HostAndTail(scheme, host, t) ==
    IF host = Empty \/ \E i \in DOMAIN host : host[i] \in ForbiddenHost
    THEN Failure
    ELSE [failure |-> FALSE, scheme |-> scheme, opaque |-> FALSE, host |-> host,
          path |-> IF t.path = Empty THEN <<"/">> ELSE PercentEncode(t.path),
          query |-> t.query, fragment |-> t.fragment]

\* host, path, query and fragment of an http(s) URL, s being what follows
\* the slashes; a is where the host ends
AuthorityAt(scheme, s, a) ==
    HostAndTail(scheme, ToLowerCase(SubSeq(s, 1, a - 1)), SplitTail(Drop(s, a - 1)))

ParseAuthority(scheme, s) == AuthorityAt(scheme, s, IndexOfAny(s, {"/", "\\", "?", "#"}))

\* a reference that starts with one slash, or with no slash, against an
\* http(s) base; t is the split reference
RelativeTail(s, t, base) ==
    IF s # Empty /\ Head(s) \in {"/", "\\"}
    THEN [base EXCEPT !.path = PercentEncode(t.path),
                      !.query = t.query, !.fragment = t.fragment]
    ELSE IF t.path = Empty
         THEN [base EXCEPT !.query = IF t.query = Null THEN base.query ELSE t.query,
                           !.fragment = t.fragment]
         ELSE [base EXCEPT !.path = SubSeq(base.path, 1, LastSlash(base.path))
                                    \o PercentEncode(t.path),
                           !.query = t.query, !.fragment = t.fragment]

\* a reference without a scheme, resolved against an http(s) base
ParseRelative(s, base) ==
    IF Len(s) >= 2 /\ s[1] \in {"/", "\\"} /\ s[2] \in {"/", "\\"}
    THEN ParseAuthority(base.scheme, SkipSlashes(s))
    ELSE RelativeTail(s, SplitTail(s), base)

\* s starts with a scheme that ends before its k-th character, a ":"
HasScheme(s, k) ==
    /\ 1 < k /\ k <= Len(s)
    /\ IsAlpha(s[1])
    /\ \A i \in 2..(k - 1) : IsAlpha(s[i]) \/ s[i] \in Digits \cup {"+", "-", "."}

\* a URL with an opaque path, t being what follows the scheme, split
OpaqueURL(scheme, t) ==
    [failure |-> FALSE, scheme |-> scheme, opaque |-> TRUE, host |-> Empty,
     path |-> t.path, query |-> t.query, fragment |-> t.fragment]

\* an input with a scheme, rest being what follows the colon
ParseWithScheme(scheme, rest, base) ==
    IF scheme \in SpecialSchemes
    THEN IF /\ ~base.failure /\ base.scheme = scheme
            /\ ~(rest # Empty /\ Head(rest) \in {"/", "\\"})
         THEN ParseRelative(rest, base)
         ELSE ParseAuthority(scheme, SkipSlashes(rest))
    ELSE OpaqueURL(scheme, SplitTail(rest))

\* an input without a scheme
ParseNoScheme(s, base) ==
    IF base.failure THEN Failure
    ELSE IF base.opaque
         THEN IF s # Empty /\ Head(s) = "#"
              THEN [base EXCEPT !.fragment = PercentEncode(Drop(s, 1))]
              ELSE Failure
         ELSE ParseRelative(s, base)

\* the parser on the stripped input s, k being the place of its first ":"
ParseStripped(s, k, base) ==
    IF HasScheme(s, k)
    THEN ParseWithScheme(ToLowerCase(SubSeq(s, 1, k - 1)), Drop(s, k), base)
    ELSE ParseNoScheme(s, base)

ParseColon(s, base) == ParseStripped(s, IndexOfAny(s, {":"}), base)

\* the URL parser; base is a parsed URL, or Failure when there is none
ParseURL(input, base) == ParseColon(RemoveTabNewline(StripC0Space(input)), base)

\* url.href
Serialize(u) ==
    u.scheme \o <<":">>
    \o (IF u.opaque THEN Empty ELSE <<"/", "/">> \o u.host)
    \o u.path
    \o (IF u.query = Null THEN Empty ELSE <<"?">> \o u.query)
    \o (IF u.fragment = Null THEN Empty ELSE <<"#">> \o u.fragment)

\* the outcome of an expression that throws
Thrown == <<"TypeError">>

\* the href of a parsed URL, Thrown for a failure
HrefOrThrow(u) == IF u.failure THEN Thrown ELSE Serialize(u)

\* the parser with a base that was parsed before (a base that fails to parse
\* makes the constructor throw as well)
ParseAgainst(urlStr, base) == IF base.failure THEN Failure ELSE ParseURL(urlStr, base)

\* new URL(urlStr, baseURI).href, or Thrown when the constructor throws
NewURLHref(urlStr, baseURI) ==
    HrefOrThrow(ParseAgainst(urlStr, ParseURL(baseURI, Failure)))

\* toAbsoluteUrl without the try/catch
ToAbsoluteUrlNoCatch(urlStr, baseURI) ==
    IF Falsy(urlStr) THEN Empty ELSE NewURLHref(urlStr, baseURI)

\* try { return href } catch (e) { return urlStr }
TryCatch(href, urlStr) == IF href = Thrown THEN urlStr ELSE href

\* toAbsoluteUrl, baseURI being document.baseURI
toAbsoluteUrl(urlStr, baseURI) ==
    IF Falsy(urlStr) THEN Empty ELSE TryCatch(NewURLHref(urlStr, baseURI), urlStr)

----------------------------------------------------------------------------
(* The resolver on attribute values and base URIs *)

\* "javascript:"
sJavascriptColon == <<"j", "a", "v", "a", "s", "c", "r", "i", "p", "t", ":">>
\* values of the href and src attributes
UrlStr ==
    [RootRel |->    \* "/x"
        <<"/", "x">>,
     PathRel |->    \* "pic.png"
        <<"p", "i", "c", ".", "p", "n", "g">>,
     Fragment |->    \* "#top"
        <<"#", "t", "o", "p">>,
     Query |->    \* "?q"
        <<"?", "q">>,
     SchemeRel |->    \* "//cdn.io/y"
        <<"/", "/", "c", "d", "n", ".", "i", "o", "/", "y">>,
     Blank |->    \* " "
        <<" ">>,
     Spaced |->    \* "a b"
        <<"a", " ", "b">>,
     Absolute |->    \* "https://other.org/a"
        <<"h", "t", "t", "p", "s", ":", "/", "/", "o", "t", "h", "e", "r", ".", "o", "r", "g", "/", "a">>,
     UpperAbs |->    \* "HTTPS://Other.ORG"
        <<"H", "T", "T", "P", "S", ":", "/", "/", "O", "t", "h", "e", "r", ".", "O", "R", "G">>,
     SameScheme |->    \* "https:z"
        <<"h", "t", "t", "p", "s", ":", "z">>,
     Script |->    \* "javascript:alert(1)"
        <<"j", "a", "v", "a", "s", "c", "r", "i", "p", "t", ":", "a", "l", "e", "r", "t", "(", "1", ")">>,
     ScriptUpper |->    \* "JavaScript:alert(1)"
        <<"J", "a", "v", "a", "S", "c", "r", "i", "p", "t", ":", "a", "l", "e", "r", "t", "(", "1", ")">>,
     ScriptPadded |->    \* " javascript:alert(1)"
        <<" ", "j", "a", "v", "a", "s", "c", "r", "i", "p", "t", ":", "a", "l", "e", "r", "t", "(", "1", ")">>,
     ScriptSplit |->    \* "java\nscript:alert(1)"
        <<"j", "a", "v", "a", "\n", "s", "c", "r", "i", "p", "t", ":", "a", "l", "e", "r", "t", "(", "1", ")">>,
     Mailto |->    \* "mailto:me"
        <<"m", "a", "i", "l", "t", "o", ":", "m", "e">>,
     NoHost |->    \* "https://"
        <<"h", "t", "t", "p", "s", ":", "/", "/">>,
     BadHost |->    \* "https://a b/"
        <<"h", "t", "t", "p", "s", ":", "/", "/", "a", " ", "b", "/">>,
     Bracket |->    \* "http://["
        <<"h", "t", "t", "p", ":", "/", "/", "[">>]

\* attribute values: getAttribute gives null for a missing attribute
UrlStrs ==
    {Null, Empty, UrlStr.RootRel, UrlStr.PathRel, UrlStr.Fragment, UrlStr.Query, UrlStr.SchemeRel, UrlStr.Blank,
     UrlStr.Spaced, UrlStr.Absolute, UrlStr.UpperAbs, UrlStr.SameScheme, UrlStr.Script, UrlStr.ScriptUpper,
     UrlStr.ScriptPadded, UrlStr.ScriptSplit, UrlStr.Mailto, UrlStr.NoHost, UrlStr.BadHost, UrlStr.Bracket}

\* values of document.baseURI and tab.url
BaseURI ==
    [Page |->    \* "https://example.com/dir/page.html"
        <<"h", "t", "t", "p", "s", ":", "/", "/", "e", "x", "a", "m", "p", "l", "e", ".", "c", "o", "m", "/", "d", "i", "r", "/", "p", "a", "g", "e", ".", "h", "t", "m", "l">>,
     Root |->    \* "https://example.com/"
        <<"h", "t", "t", "p", "s", ":", "/", "/", "e", "x", "a", "m", "p", "l", "e", ".", "c", "o", "m", "/">>,
     Queried |->    \* "https://example.com/a?b#c"
        <<"h", "t", "t", "p", "s", ":", "/", "/", "e", "x", "a", "m", "p", "l", "e", ".", "c", "o", "m", "/", "a", "?", "b", "#", "c">>,
     Dir |->    \* "http://localhost/x/y/"
        <<"h", "t", "t", "p", ":", "/", "/", "l", "o", "c", "a", "l", "h", "o", "s", "t", "/", "x", "/", "y", "/">>,
     AboutBlank |->    \* "about:blank"
        <<"a", "b", "o", "u", "t", ":", "b", "l", "a", "n", "k">>,
     Www |->    \* "https://www.example.com/dir/page.html"
        <<"h", "t", "t", "p", "s", ":", "/", "/", "w", "w", "w", ".", "e", "x", "a", "m", "p", "l", "e", ".", "c", "o", "m", "/", "d", "i", "r", "/", "p", "a", "g", "e", ".", "h", "t", "m", "l">>]

\* values of document.baseURI
Bases == {BaseURI.Page, BaseURI.Root, BaseURI.Queried, BaseURI.Dir, BaseURI.AboutBlank}

\* "https://example.com/x"
rPageX == <<"h", "t", "t", "p", "s", ":", "/", "/", "e", "x", "a", "m", "p", "l", "e", ".", "c", "o", "m", "/", "x">>
\* "https://example.com/dir/pic.png"
rPagePic == <<"h", "t", "t", "p", "s", ":", "/", "/", "e", "x", "a", "m", "p", "l", "e", ".", "c", "o", "m", "/", "d", "i", "r", "/", "p", "i", "c", ".", "p", "n", "g">>

UIdle ==
    /\ fRaw = Empty /\ fOnce = Empty /\ fTwice = Empty /\ fStage = "off"
    /\ cSel = <<>> /\ cBase = Empty /\ cRaw = Empty /\ cOut = Empty /\ cStage = "off"
    /\ invs = <<>> /\ downloads = <<>> /\ warnings = 0 /\ rejected = {} /\ injections = 0

InitResolve ==
    /\ uStr \in UrlStrs
    /\ uBase \in Bases
    /\ uOut = Empty /\ uStage = "call"
    /\ UIdle

Resolve ==
    /\ uStage = "call"
    /\ uOut' = toAbsoluteUrl(uStr, uBase)
    /\ uStage' = "done"
    /\ UNCHANGED <<uStr, uBase, fvars, cvars, hvars>>

NextResolve == Resolve

SpecResolve == InitResolve /\ [][NextResolve]_vars

\* C3: the resolver never raises; it returns "" for an empty or absent urlStr,
\* and otherwise the absolute resolution against the base or, when the
\* resolution fails, urlStr itself
C3_Resolver ==
    uStage = "done" =>
        /\ uOut # Thrown
        /\ Falsy(uStr) => uOut = Empty
        /\ ~Falsy(uStr) =>
              IF ParseURL(uStr, ParseURL(uBase, Failure)).failure
              THEN uOut = uStr
              ELSE uOut = Serialize(ParseURL(uStr, ParseURL(uBase, Failure)))
        /\ (uStr = UrlStr.RootRel /\ uBase = BaseURI.Page) => uOut = rPageX
        /\ (uStr = UrlStr.PathRel /\ uBase = BaseURI.Page) => uOut = rPagePic
        /\ (uStr = UrlStr.BadHost) => uOut = UrlStr.BadHost
        /\ (uStr = UrlStr.RootRel /\ uBase = BaseURI.AboutBlank) => uOut = UrlStr.RootRel

\* the resolver was called with a urlStr whose resolution fails and gave it back
C3_Witness ==
    /\ uStage = "done"
    /\ ~Falsy(uStr)
    /\ NewURLHref(uStr, uBase) = Thrown
    /\ uOut = uStr

----------------------------------------------------------------------------
(* DOM nodes: childNodes, tagName (upper case for the elements of an HTML   *)
(* document, as written for foreign elements such as svg), textContent, and *)
(* the attributes getAttribute is asked for (Null when missing)             *)

NoAttrs == [href |-> Null, src |-> Null, alt |-> Null]

Text(t) ==
    [nodeType |-> "TEXT_NODE", tagName |-> Empty, attrs |-> NoAttrs,
     childNodes |-> <<>>, textContent |-> t]

Comment(t) ==
    [nodeType |-> "COMMENT_NODE", tagName |-> Empty, attrs |-> NoAttrs,
     childNodes |-> <<>>, textContent |-> t]

Elem(tag, attrs, kids) ==
    [nodeType |-> "ELEMENT_NODE", tagName |-> tag, attrs |-> attrs,
     childNodes |-> kids, textContent |-> Empty]

\* node.getAttribute(name)
getAttribute(node, name) == node.attrs[name]

\* values of node.tagName
Tag ==
    [B |->    \* "B"
        <<"B">>,
     STRONG |->    \* "STRONG"
        <<"S", "T", "R", "O", "N", "G">>,
     I |->    \* "I"
        <<"I">>,
     EM |->    \* "EM"
        <<"E", "M">>,
     U |->    \* "U"
        <<"U">>,
     H1 |->    \* "H1"
        <<"H", "1">>,
     H2 |->    \* "H2"
        <<"H", "2">>,
     H3 |->    \* "H3"
        <<"H", "3">>,
     H4 |->    \* "H4"
        <<"H", "4">>,
     A |->    \* "A"
        <<"A">>,
     CODE |->    \* "CODE"
        <<"C", "O", "D", "E">>,
     PRE |->    \* "PRE"
        <<"P", "R", "E">>,
     LI |->    \* "LI"
        <<"L", "I">>,
     P |->    \* "P"
        <<"P">>,
     DIV |->    \* "DIV"
        <<"D", "I", "V">>,
     SECTION |->    \* "SECTION"
        <<"S", "E", "C", "T", "I", "O", "N">>,
     ARTICLE |->    \* "ARTICLE"
        <<"A", "R", "T", "I", "C", "L", "E">>,
     BR |->    \* "BR"
        <<"B", "R">>,
     IMG |->    \* "IMG"
        <<"I", "M", "G">>,
     SPAN |->    \* "SPAN"
        <<"S", "P", "A", "N">>,
     H5 |->    \* "H5"
        <<"H", "5">>,
     Svg |->    \* "svg"
        <<"s", "v", "g">>]

\* the case labels of the switch
Kw ==
    [b |->    \* "b"
        <<"b">>,
     strong |->    \* "strong"
        <<"s", "t", "r", "o", "n", "g">>,
     i |->    \* "i"
        <<"i">>,
     em |->    \* "em"
        <<"e", "m">>,
     u |->    \* "u"
        <<"u">>,
     h1 |->    \* "h1"
        <<"h", "1">>,
     h2 |->    \* "h2"
        <<"h", "2">>,
     h3 |->    \* "h3"
        <<"h", "3">>,
     h4 |->    \* "h4"
        <<"h", "4">>,
     a |->    \* "a"
        <<"a">>,
     code |->    \* "code"
        <<"c", "o", "d", "e">>,
     pre |->    \* "pre"
        <<"p", "r", "e">>,
     li |->    \* "li"
        <<"l", "i">>,
     p |->    \* "p"
        <<"p">>,
     div |->    \* "div"
        <<"d", "i", "v">>,
     section |->    \* "section"
        <<"s", "e", "c", "t", "i", "o", "n">>,
     article |->    \* "article"
        <<"a", "r", "t", "i", "c", "l", "e">>,
     br |->    \* "br"
        <<"b", "r">>,
     img |->    \* "img"
        <<"i", "m", "g">>]

----------------------------------------------------------------------------
(* domToMarkdown: the rules of the switch, one operator per group of cases *)

\* 'b', 'strong' without the surrounding spaces
BoldRuleNoSpaces(content) ==
    IF Trim(content) # Empty THEN <<"*", "*">> \o content \o <<"*", "*">> ELSE Empty

\* case 'b', 'strong'
BoldRule(content) ==
    IF Trim(content) # Empty
    THEN <<" ", "*", "*">> \o content \o <<"*", "*", " ">>
    ELSE Empty

\* case 'i', 'em'
ItalicRule(content) ==
    IF Trim(content) # Empty THEN <<" ", "*">> \o content \o <<"*", " ">> ELSE Empty

\* case 'u'
UnderlineRule(content) ==
    <<" ", "<", "u", ">">> \o content \o <<"<", "/", "u", ">", " ">>

\* headings that start counting their '#' at zero
HeadingRuleOffByOne(level, content) ==
    <<NL>> \o [i \in 1..(level - 1) |-> "#"] \o <<" ">> \o content \o <<NL>>

\* case 'h1' .. 'h4'
HeadingRule(level, content) ==
    CASE level = 1 -> <<NL, "#", " ">> \o content \o <<NL>>
      [] level = 2 -> <<NL, "#", "#", " ">> \o content \o <<NL>>
      [] level = 3 -> <<NL, "#", "#", "#", " ">> \o content \o <<NL>>
      [] level = 4 -> <<NL, "#", "#", "#", "#", " ">> \o content \o <<NL>>

\* lines 78-81 with the javascript: test made on the attribute, not on the
\* resolved URL
LinkTextRawHref(href, fullHref, content) ==
    IF Falsy(fullHref) \/ StartsWith(href, sJavascriptColon)
    THEN content
    ELSE <<"[">> \o content \o <<"]", "(">> \o fullHref \o <<")">>

\* lines 78-81: the link, or the text alone without a usable target
LinkText(href, fullHref, content) ==
    IF Falsy(fullHref) \/ StartsWith(fullHref, sJavascriptColon)
    THEN content
    ELSE <<"[">> \o content \o <<"]", "(">> \o fullHref \o <<")">>

\* case 'a'
LinkRule(node, content, baseURI) ==
    LinkText(getAttribute(node, "href"),
             toAbsoluteUrl(getAttribute(node, "href"), baseURI), content)

\* the character U+0060 (a string cannot hold it as written)
Backtick == "U+0060"

\* case 'code'
CodeRule(content) == <<" ", Backtick>> \o content \o <<Backtick, " ">>

\* case 'pre'
PreRule(content) ==
    <<NL, Backtick, Backtick, Backtick, NL>> \o content
    \o <<NL, Backtick, Backtick, Backtick, NL>>

\* case 'li'
ListItemRule(content) == <<NL, "-", " ">> \o content

\* case 'p', 'div', 'section', 'article'
BlockRule(content) == <<NL>> \o content \o <<NL>>

\* case 'br'
BreakRule == <<NL>>

\* lines 105-108 with the default taken for a missing alt only, not for an
\* empty one
ImageTextNoDefault(fullSrc, altAttr) ==
    IF Falsy(fullSrc) THEN Empty
    ELSE <<NL, "!", "[">>
         \o (IF altAttr = Null THEN <<"i", "m", "a", "g", "e">> ELSE altAttr)
         \o <<"]", "(">> \o fullSrc \o <<")", NL>>

\* lines 105-108: nothing without a source, else the image with its alt text
ImageText(fullSrc, altAttr) ==
    IF Falsy(fullSrc) THEN Empty
    ELSE <<NL, "!", "[">> \o OrElse(altAttr, <<"i", "m", "a", "g", "e">>)
         \o <<"]", "(">> \o fullSrc \o <<")", NL>>

\* case 'img'
ImageRule(node, baseURI) ==
    ImageText(toAbsoluteUrl(getAttribute(node, "src"), baseURI),
              getAttribute(node, "alt"))

\* default
DefaultRule(content) == content

\* the switch on tagName
TagRule(node, tagName, content, baseURI) ==
    CASE tagName \in {Kw.b, Kw.strong} -> BoldRule(content)
      [] tagName \in {Kw.i, Kw.em} -> ItalicRule(content)
      [] tagName = Kw.u -> UnderlineRule(content)
      [] tagName = Kw.h1 -> HeadingRule(1, content)
      [] tagName = Kw.h2 -> HeadingRule(2, content)
      [] tagName = Kw.h3 -> HeadingRule(3, content)
      [] tagName = Kw.h4 -> HeadingRule(4, content)
      [] tagName = Kw.a -> LinkRule(node, content, baseURI)
      [] tagName = Kw.code -> CodeRule(content)
      [] tagName = Kw.pre -> PreRule(content)
      [] tagName = Kw.li -> ListItemRule(content)
      [] tagName \in {Kw.p, Kw.div, Kw.section, Kw.article} -> BlockRule(content)
      [] tagName = Kw.br -> BreakRule
      [] tagName = Kw.img -> ImageRule(node, baseURI)
      [] OTHER -> DefaultRule(content)

RECURSIVE domToMarkdown(_, _)

\* a loop that prepends each child's fragment instead of appending it
RECURSIVE ChildrenContentPrepend(_, _)
ChildrenContentPrepend(childNodes, baseURI) ==
    IF childNodes = <<>> THEN Empty
    ELSE ChildrenContentPrepend(Tail(childNodes), baseURI)
         \o domToMarkdown(Head(childNodes), baseURI)

\* the loop over node.childNodes: content += domToMarkdown(child)
RECURSIVE ChildrenContent(_, _)
ChildrenContent(childNodes, baseURI) ==
    IF childNodes = <<>> THEN Empty
    ELSE domToMarkdown(Head(childNodes), baseURI)
         \o ChildrenContent(Tail(childNodes), baseURI)

domToMarkdown(node, baseURI) ==
    IF node.nodeType = "TEXT_NODE" THEN node.textContent
    ELSE IF node.nodeType = "ELEMENT_NODE"
         THEN TagRule(node, ToLowerCase(node.tagName),
                      ChildrenContent(node.childNodes, baseURI), baseURI)
         ELSE Empty

\* container: a new div holding the cloned contents of the selection's range
Container(contents) == Elem(Tag.DIV, NoAttrs, contents)

\* getMarkdownFromSelection: Null without a range, else the cleaned-up
\* conversion of the container
getMarkdownFromSelection(rangeCount, contents, baseURI) ==
    IF rangeCount = 0 THEN Null
    ELSE Finalize(domToMarkdown(Container(contents), baseURI))

----------------------------------------------------------------------------
(* Selections: the nodes cloneContents() puts into the container *)

\* most children an element of a generated selection has
MaxKids == 2

\* deepest nesting of elements in a generated selection
MaxDepth == 3

\* "Hello "
sHello == <<"H", "e", "l", "l", "o", " ">>
\* "World"
sWorld == <<"W", "o", "r", "l", "d">>
\* "Title"
sTitle == <<"T", "i", "t", "l", "e">>
sGo == <<"g", "o">>
\* "click"
sClick == <<"c", "l", "i", "c", "k">>
\* "image"
sImageWord == <<"i", "m", "a", "g", "e">>
\* "Hello  **World**"
sHelloWorld == <<"H", "e", "l", "l", "o", " ", " ", "*", "*", "W", "o", "r", "l", "d", "*", "*">>
\* "Hello **World**"
sHelloWorldOneSpace == <<"H", "e", "l", "l", "o", " ", "*", "*", "W", "o", "r", "l", "d", "*", "*">>
\* "## Title"
sTitleH2 == <<"#", "#", " ", "T", "i", "t", "l", "e">>
\* "# Title"
sTitleH1 == <<"#", " ", "T", "i", "t", "l", "e">>
\* "[go](https://example.com/x)"
sGoLink == <<"[", "g", "o", "]", "(", "h", "t", "t", "p", "s", ":", "/", "/", "e", "x", "a", "m", "p", "l", "e", ".", "c", "o", "m", "/", "x", ")">>
\* "![image](https://example.com/dir/pic.png)"
sPicImage == <<"!", "[", "i", "m", "a", "g", "e", "]", "(", "h", "t", "t", "p", "s", ":", "/", "/", "e", "x", "a", "m", "p", "l", "e", ".", "c", "o", "m", "/", "d", "i", "r", "/", "p", "i", "c", ".", "p", "n", "g", ")">>
\* "](javascript:"
sScriptTarget == <<"]", "(", "j", "a", "v", "a", "s", "c", "r", "i", "p", "t", ":">>

AllTags ==
    {Tag.B, Tag.STRONG, Tag.I, Tag.EM, Tag.U, Tag.H1, Tag.H2, Tag.H3, Tag.H4, Tag.A, Tag.CODE,
     Tag.PRE, Tag.LI, Tag.P, Tag.DIV, Tag.SECTION, Tag.ARTICLE, Tag.BR, Tag.IMG, Tag.SPAN,
     Tag.H5, Tag.Svg}

\* the case labels of the switch
KnownTags ==
    {Kw.b, Kw.strong, Kw.i, Kw.em, Kw.u, Kw.h1, Kw.h2, Kw.h3, Kw.h4, Kw.a, Kw.code,
     Kw.pre, Kw.li, Kw.p, Kw.div, Kw.section, Kw.article, Kw.br, Kw.img}

Leaves == {Text(<<"a">>), Text(<<" ">>), Text(<<NL, "*">>), Comment(<<"c">>)}

ImgSrcs == {Null, Empty, UrlStr.PathRel, UrlStr.BadHost, UrlStr.Blank}
Alts == {Null, Empty, <<"x">>}

\* tag and attributes of the elements that are generated with every content
ElementKinds ==
    {[tag |-> t, attrs |-> NoAttrs] : t \in AllTags \ {Tag.A, Tag.IMG}}
    \cup {[tag |-> Tag.A, attrs |-> [NoAttrs EXCEPT !.href = h]] : h \in UrlStrs}
    \cup {[tag |-> Tag.IMG, attrs |-> [href |-> Null, src |-> u, alt |-> a]] :
             u \in ImgSrcs, a \in Alts}

\* one element of any kind over text and comment children
FlatElements ==
    {Elem(k.tag, k.attrs, kids) : k \in ElementKinds, kids \in SeqsUpTo(Leaves, MaxKids)}

WrapTags == {Tag.DIV, Tag.P, Tag.B, Tag.LI, Tag.H2, Tag.SPAN}

\* inner wrapped in the elements named by tags, the first outermost
RECURSIVE Nest(_, _)
Nest(tags, inner) ==
    IF tags = <<>> THEN inner
    ELSE <<Elem(Head(tags), NoAttrs, Nest(Tail(tags), inner))>>

\* chains of nested elements around at most one leaf
NestedSelections ==
    {Nest(tags, inner) :
        tags \in {t \in SeqsUpTo(WrapTags, MaxDepth) : Len(t) >= 2},
        inner \in SeqsUpTo(Leaves, 1)}

\* small elements that occur as children and as siblings
Inner ==
    {Elem(Tag.B, NoAttrs, <<Text(<<"a">>)>>),
     Elem(Tag.EM, NoAttrs, <<Text(<<" ">>)>>),
     Elem(Tag.SPAN, NoAttrs, <<Text(<<"a">>)>>),
     Elem(Tag.DIV, NoAttrs, <<>>),
     Elem(Tag.BR, NoAttrs, <<>>),
     Elem(Tag.A, [NoAttrs EXCEPT !.href = UrlStr.ScriptUpper], <<Text(<<"a">>)>>),
     Elem(Tag.IMG, [NoAttrs EXCEPT !.src = UrlStr.PathRel], <<>>)}

\* sequences of leaves and small elements
Forests == SeqsUpTo(Leaves \cup Inner, MaxKids)

\* an element over leaves and small elements
MixedElements == {Elem(t, NoAttrs, kids) : t \in WrapTags, kids \in Forests}

selHelloWorld ==
    <<Elem(Tag.P, NoAttrs, <<Text(sHello), Elem(Tag.B, NoAttrs, <<Text(sWorld)>>)>>)>>
selGoLink == <<Elem(Tag.A, [NoAttrs EXCEPT !.href = UrlStr.RootRel], <<Text(sGo)>>)>>
selScriptLink == <<Elem(Tag.A, [NoAttrs EXCEPT !.href = UrlStr.Script], <<Text(sClick)>>)>>
selPicImage == <<Elem(Tag.IMG, [NoAttrs EXCEPT !.src = UrlStr.PathRel], <<>>)>>
selTitle == <<Elem(Tag.H2, NoAttrs, <<Text(sTitle)>>)>>
selNestedBlocks ==
    <<Text(<<"a">>),
      Elem(Tag.DIV, NoAttrs,
           <<Elem(Tag.DIV, NoAttrs, <<Elem(Tag.P, NoAttrs, <<Text(<<"a">>)>>)>>)>>)>>

Scenarios ==
    {selHelloWorld, selGoLink, selScriptLink, selPicImage, selTitle, selNestedBlocks}

Selections ==
    {<<n>> : n \in FlatElements \cup MixedElements}
    \cup NestedSelections \cup Forests \cup Scenarios

----------------------------------------------------------------------------
(* The clean-up on arbitrary strings and on raw conversions *)

FChars == {"\n", " ", "\t", "a"}

FIdle ==
    /\ uStr = Empty /\ uBase = Empty /\ uOut = Empty /\ uStage = "off"
    /\ cSel = <<>> /\ cBase = Empty /\ cRaw = Empty /\ cOut = Empty /\ cStage = "off"
    /\ invs = <<>> /\ downloads = <<>> /\ warnings = 0 /\ rejected = {} /\ injections = 0

\* what domToMarkdown gives for selections of nested elements
RawOutputs ==
    {domToMarkdown(Container(sel), BaseURI.Page) : sel \in NestedSelections \cup Scenarios}

InitFinalize ==
    /\ fRaw \in SeqsUpTo(FChars, MaxLen) \cup RawOutputs
    /\ fOnce = Empty /\ fTwice = Empty /\ fStage = "raw"
    /\ FIdle

FinalizeOnce ==
    /\ fStage = "raw"
    /\ fOnce' = Finalize(fRaw)
    /\ fStage' = "once"
    /\ UNCHANGED <<fRaw, fTwice, uvars, cvars, hvars>>

FinalizeAgain ==
    /\ fStage = "once"
    /\ fTwice' = Finalize(fOnce)
    /\ fStage' = "twice"
    /\ UNCHANGED <<fRaw, fOnce, uvars, cvars, hvars>>

NextFinalize == FinalizeOnce \/ FinalizeAgain

SpecFinalize == InitFinalize /\ [][NextFinalize]_vars

\* s has a run of three newlines somewhere
HasTripleNewline(s) ==
    \E i \in 1..(Len(s) - 2) : s[i] = NL /\ s[i + 1] = NL /\ s[i + 2] = NL

\* s is free of leading and trailing whitespace
Trimmed(s) == s = Empty \/ (s[1] \notin WhiteSpace /\ s[Len(s)] \notin WhiteSpace)

\* C1: the clean-up is idempotent: applying it to its own result changes nothing
C1_Idempotent == fStage = "twice" => fTwice = fOnce

\* the clean-up changed the raw string (both collapsed a run and trimmed) and
\* was then applied a second time
C1_Witness ==
    /\ fStage = "twice"
    /\ HasTripleNewline(fRaw)
    /\ ~Trimmed(fRaw)
    /\ fOnce # Empty
    /\ HasTripleNewline(Trim(fRaw))

\* C2: a cleaned-up string has no run of 3 or more newlines and no leading or
\* trailing whitespace character
C2_Clean ==
    fStage \in {"once", "twice"} => ~HasTripleNewline(fOnce) /\ Trimmed(fOnce)

\* the conversion of a text followed by three nested blocks, which has a run
\* of three newlines inside and four at its end, was cleaned up
C2_Witness ==
    /\ fStage = "once"
    /\ fRaw = domToMarkdown(Container(selNestedBlocks), BaseURI.Page)
    /\ fRaw = <<NL, "a", NL, NL, NL, "a", NL, NL, NL, NL>>
    /\ fOnce = <<"a", NL, NL, "a">>

----------------------------------------------------------------------------
(* getMarkdownFromSelection on a selection *)

CIdle ==
    /\ fRaw = Empty /\ fOnce = Empty /\ fTwice = Empty /\ fStage = "off"
    /\ uStr = Empty /\ uBase = Empty /\ uOut = Empty /\ uStage = "off"
    /\ invs = <<>> /\ downloads = <<>> /\ warnings = 0 /\ rejected = {} /\ injections = 0

InitConvert ==
    /\ cSel \in Selections
    /\ cBase \in Bases
    /\ cRaw = Empty /\ cOut = Empty /\ cStage = "selected"
    /\ CIdle

\* let markdown = domToMarkdown(container)
Convert ==
    /\ cStage = "selected"
    /\ cRaw' = domToMarkdown(Container(cSel), cBase)
    /\ cStage' = "converted"
    /\ UNCHANGED <<cSel, cBase, cOut, fvars, uvars, hvars>>

\* return markdown.replace(/\n{3,}/g, "\n\n").trim()
CleanUp ==
    /\ cStage = "converted"
    /\ cOut' = Finalize(cRaw)
    /\ cStage' = "done"
    /\ UNCHANGED <<cSel, cBase, cRaw, fvars, uvars, hvars>>

NextConvert == Convert \/ CleanUp

SpecConvert == InitConvert /\ [][NextConvert]_vars

\* node and all its descendants
RECURSIVE Subnodes(_)
Subnodes(node) ==
    {node} \cup UNION {Subnodes(node.childNodes[i]) : i \in DOMAIN node.childNodes}

\* the nodes of the converted tree
ConvertedNodes == Subnodes(Container(cSel))

\* the fragments of the nodes of seq, joined in order with no separator
RECURSIVE Joined(_, _)
Joined(seq, baseURI) ==
    IF seq = <<>> THEN Empty
    ELSE Joined(SubSeq(seq, 1, Len(seq) - 1), baseURI)
         \o domToMarkdown(seq[Len(seq)], baseURI)

IsElement(n, tag) == n.nodeType = "ELEMENT_NODE" /\ n.tagName = tag

\* t occurs in s
Contains(s, t) ==
    \E i \in 0..(Len(s) - Len(t)) : SubSeq(s, i + 1, i + Len(t)) = t

----------------------------------------------------------------------------
(* Claims about the conversion *)

\* what the claims expect of an a element with the given content
ExpectedLink(n, content, baseURI) ==
    LET href == n.attrs.href
        fullHref == toAbsoluteUrl(href, baseURI)
    IN  IF Falsy(href) \/ StartsWith(fullHref, sJavascriptColon)
        THEN content
        ELSE <<"[">> \o content \o <<"]", "(">> \o fullHref \o <<")">>

\* C4: an a element whose href is missing, empty or resolves to a javascript:
\* URL converts to its children's content alone, any other one to
\* [content](fullHref); no link target of the output begins with javascript:
C4_Links ==
    cStage = "done" =>
        /\ \A n \in ConvertedNodes :
              IsElement(n, Tag.A) =>
                  domToMarkdown(n, cBase)
                      = ExpectedLink(n, Joined(n.childNodes, cBase), cBase)
        /\ (Len(cSel) = 1 /\ IsElement(cSel[1], Tag.A)) =>
              cRaw = <<NL>>
                     \o ExpectedLink(cSel[1], Joined(cSel[1].childNodes, cBase), cBase)
                     \o <<NL>>
        /\ ~Contains(cOut, sScriptTarget)
        /\ (cSel = selGoLink /\ cBase = BaseURI.Page) => cOut = sGoLink
        /\ cSel = selScriptLink => cOut = sClick

\* a link whose href only becomes a javascript: URL by resolution was
\* converted to its text
C4_Witness ==
    /\ cStage = "done"
    /\ Len(cSel) = 1
    /\ IsElement(cSel[1], Tag.A)
    /\ cSel[1].attrs.href = UrlStr.ScriptUpper
    /\ cSel[1].childNodes = <<Text(<<"a">>)>>
    /\ cOut = <<"a">>

\* C5 as stated: <p>Hello <b>World</b></p> gives "Hello **World**", with a
\* single space between the two words
C5_OneSpace == (cStage = "done" /\ cSel = selHelloWorld) => cOut = sHelloWorldOneSpace

\* C5 as amended: <p>Hello <b>World</b></p> gives "Hello  **World**" with any
\* base URL: the space of the text node is followed by the space the b rule
\* puts before the asterisks, and nothing precedes or follows
C5_TwoSpaces == (cStage = "done" /\ cSel = selHelloWorld) => cOut = sHelloWorld

\* <p>Hello <b>World</b></p> was converted and cleaned up
C5_Witness ==
    /\ cStage = "done"
    /\ cSel = selHelloWorld
    /\ cBase = BaseURI.AboutBlank
    /\ cRaw = <<NL, NL>> \o sHelloWorld \o <<" ", NL, NL>>

\* what the claims expect of an img element
ExpectedImage(n, baseURI) ==
    LET src == n.attrs.src
        alt == IF n.attrs.alt \in {Null, Empty} THEN sImageWord ELSE n.attrs.alt
    IN  IF src \in {Null, Empty} THEN Empty
        ELSE <<NL, "!", "[">> \o alt \o <<"]", "(">> \o toAbsoluteUrl(src, baseURI)
             \o <<")", NL>>

\* C6: an img element without a src (missing or empty) converts to "", any
\* other one to \n![alt](fullSrc)\n with alt defaulting to "image"; its
\* children's content is not part of the fragment, and nothing is raised
C6_Images ==
    cStage = "done" =>
        /\ \A n \in ConvertedNodes :
              IsElement(n, Tag.IMG) =>
                  /\ domToMarkdown(n, cBase) = ExpectedImage(n, cBase)
                  /\ domToMarkdown(n, cBase) # Thrown
        /\ (Len(cSel) = 1 /\ IsElement(cSel[1], Tag.IMG)) =>
              cRaw = <<NL>> \o ExpectedImage(cSel[1], cBase) \o <<NL>>
        /\ (cSel = selPicImage /\ cBase = BaseURI.Page) => cOut = sPicImage

\* an img element with a src, an empty alt and a text child was converted
C6_Witness ==
    /\ cStage = "done"
    /\ Len(cSel) = 1
    /\ IsElement(cSel[1], Tag.IMG)
    /\ cSel[1].attrs.src = UrlStr.PathRel
    /\ cSel[1].attrs.alt = Empty
    /\ cSel[1].childNodes = <<Text(<<"a">>)>>
    /\ Contains(cOut, sImageWord)

\* the level of a heading tag, 0 for any other tag
HeadingLevel(tag) ==
    CASE tag = Tag.H1 -> 1 [] tag = Tag.H2 -> 2 [] tag = Tag.H3 -> 3 [] tag = Tag.H4 -> 4
      [] OTHER -> 0

\* C7: an hn element, n in 1..4, converts to a newline, n '#', a space, its
\* children's content and a newline; <h2>Title</h2> gives "## Title"
C7_Headings ==
    cStage = "done" =>
        /\ \A n \in ConvertedNodes :
              (n.nodeType = "ELEMENT_NODE" /\ HeadingLevel(n.tagName) > 0) =>
                  domToMarkdown(n, cBase)
                      = <<NL>> \o [i \in 1..HeadingLevel(n.tagName) |-> "#"] \o <<" ">>
                        \o Joined(n.childNodes, cBase) \o <<NL>>
        /\ (Len(cSel) = 1 /\ cSel[1].nodeType = "ELEMENT_NODE"
                /\ HeadingLevel(cSel[1].tagName) > 0) =>
              cRaw = <<NL, NL>> \o [i \in 1..HeadingLevel(cSel[1].tagName) |-> "#"]
                     \o <<" ">> \o Joined(cSel[1].childNodes, cBase) \o <<NL, NL>>
        /\ cSel = selTitle => (cOut = sTitleH2 /\ cOut # sTitleH1)

\* <h2>Title</h2> was converted to "## Title"
C7_Witness == cStage = "done" /\ cSel = selTitle /\ cOut = sTitleH2

\* the text contents of the text nodes of a node, in document order
RECURSIVE TextOf(_)
RECURSIVE TextOfAll(_)
TextOfAll(seq) == IF seq = <<>> THEN Empty ELSE TextOf(Head(seq)) \o TextOfAll(Tail(seq))
TextOf(node) ==
    IF node.nodeType = "TEXT_NODE" THEN node.textContent ELSE TextOfAll(node.childNodes)

UnknownElement(n) ==
    n.nodeType = "ELEMENT_NODE" /\ ToLowerCase(n.tagName) \notin KnownTags

\* node is built only from text nodes and elements with unknown tags
OnlyTextAndUnknown(node) ==
    \A n \in Subnodes(node) : n.nodeType = "TEXT_NODE" \/ UnknownElement(n)

----------------------------------------------------------------------------
(* The context-menu click handler *)

\* clicks the model follows
MaxClicks == 2

\* sanitizeFilename keeps the first 80 characters
FilenameLimit == 80

sSaveSelectionMd == "save-selection-md"
\* "unknown"
sUnknown == <<"u", "n", "k", "n", "o", "w", "n">>
\* "www."
sWwwDot == <<"w", "w", "w", ".">>
\* ".md"
sDotMd == <<".", "m", "d">>
\* "Hello World"
sSelected == <<"H", "e", "l", "l", "o", " ", "W", "o", "r", "l", "d">>

\* getBeijingTime(): the clock's reading, one character standing for each of
\* its two renderings
getBeijingTime == [full |-> <<"T">>, file |-> <<"t">>]

\* url.hostname.replace(/^www\./, ""), "unknown" for a URL that failed to parse
Hostname(u) ==
    IF u.failure THEN sUnknown
    ELSE IF StartsWith(u.host, sWwwDot) THEN Drop(u.host, Len(sWwwDot)) ELSE u.host

\* extractDomain(urlStr): new URL(urlStr).hostname without a leading "www.",
\* "unknown" when the constructor throws
extractDomain(urlStr) == Hostname(ParseURL(urlStr, Failure))

\* the characters of [<>:"/\\|?*\x00-\x1F\s], among those the model uses
UnsafeChars == {"<", ">", ":", "\"", "/", "\\", "|", "?", "*", " ", "\n", "\t"}

\* name.replace(/[<>:"/\\|?*\x00-\x1F\s]+/g, "_")
RECURSIVE ReplaceUnsafe(_)
ReplaceUnsafe(name) ==
    IF name = Empty THEN Empty
    ELSE IF Head(name) \in UnsafeChars
         THEN <<"_">> \o ReplaceUnsafe(Drop(name, IndexOfAny(name, {c \in {name[i] : i \in DOMAIN name} : c \notin UnsafeChars}) - 1))
         ELSE <<Head(name)>> \o ReplaceUnsafe(Tail(name))

\* sanitizeFilename(name)
sanitizeFilename(name) ==
    LET r == ReplaceUnsafe(name)
    IN  SubSeq(r, 1, IF Len(r) < FilenameLimit THEN Len(r) ELSE FilenameLimit)

\* the template literal of fileContent
FileContent(pageUrl, timeData, contentMD) ==
    <<"U", "R", "L", ":", " ", "[">> \o pageUrl \o <<"]", "(">> \o pageUrl \o <<")", NL>>
    \o <<"S", "a", "v", "e", "d", ":", " ">> \o timeData.full \o <<NL, NL>>
    \o contentMD \o <<NL>>

\* the argument of chrome.downloads.download; url is given by the content the
\* data URL of createDataUrl encodes
DownloadOptions(pageUrl, timeData, contentMD) ==
    [url |-> FileContent(pageUrl, timeData, contentMD),
     filename |-> sanitizeFilename(extractDomain(pageUrl)) \o <<"_">> \o timeData.file
                  \o sDotMd,
     conflictAction |-> "uniquify",
     saveAs |-> FALSE]

\* info.menuItemId
MenuItemIds == {sSaveSelectionMd, "other-item"}

\* info.selectionText
SelectionTexts == {Undefined, sSelected}

\* tab: missing when the click did not take place in a tab; tab.url is
\* undefined when the extension may not read it
NoTab == [missing |-> TRUE, id |-> Undefined, url |-> Undefined]

Tabs ==
    {NoTab}
    \cup {[missing |-> FALSE, id |-> <<"1">>, url |-> u] : u \in {Undefined, BaseURI.Page, BaseURI.Www}}

\* what the tab's document holds when the injected function runs
PageStates ==
    {[rangeCount |-> 0, contents |-> <<>>, baseURI |-> BaseURI.Page]}
    \cup {[rangeCount |-> 1, contents |-> c, baseURI |-> BaseURI.Page] :
             c \in {selHelloWorld, selGoLink, <<Elem(Tag.DIV, NoAttrs, <<>>)>>}}

\* the values executeScript's promise resolves to: no frame result at all, or
\* the injected function's return value for the main frame
InjectionResults ==
    {<<>>}
    \cup {<<[result |-> getMarkdownFromSelection(d.rangeCount, d.contents, d.baseURI)]>> :
             d \in PageStates}

\* results[0]?.result
FirstResult(results) == IF results = <<>> THEN Undefined ELSE results[1].result

HIdle ==
    /\ fRaw = Empty /\ fOnce = Empty /\ fTwice = Empty /\ fStage = "off"
    /\ uStr = Empty /\ uBase = Empty /\ uOut = Empty /\ uStage = "off"
    /\ cSel = <<>> /\ cBase = Empty /\ cRaw = Empty /\ cOut = Empty /\ cStage = "off"

Init ==
    /\ invs = <<>>
    /\ downloads = <<>>
    /\ warnings = 0
    /\ rejected = {}
    /\ injections = 0
    /\ HIdle

\* lines 183-206 for invocation i, whose try statement left contentMD: the
\* fallback, then tab.url (a TypeError when tab is missing, which rejects the
\* handler's promise), then the download
Finish(i, v, contentMD) ==
    LET body == IF Falsy(contentMD) THEN OrElse(v.selectionText, Empty) ELSE contentMD
    IN  IF v.tab.missing
        THEN /\ invs' = [invs EXCEPT ![i] = [v EXCEPT !.pc = "rejected", !.contentMD = body]]
             /\ rejected' = rejected \cup {i}
             /\ UNCHANGED downloads
        ELSE /\ invs' = [invs EXCEPT ![i] = [v EXCEPT !.pc = "done", !.contentMD = body]]
             /\ downloads' = Append(downloads,
                    [inv |-> i,
                     options |-> DownloadOptions(OrElse(v.tab.url, Empty),
                                                 getBeijingTime, body)])
             /\ UNCHANGED rejected

\* a click on a context-menu item: the listener runs up to its first await
OnClicked(menuItemId, selectionText, tab) ==
    /\ Len(invs) < MaxClicks
    /\ LET i == Len(invs) + 1
           v == [pc |-> "awaiting", menuItemId |-> menuItemId,
                 selectionText |-> selectionText, tab |-> tab,
                 injected |-> FALSE, result |-> Undefined, contentMD |-> Empty]
       IN  IF menuItemId # sSaveSelectionMd
           THEN /\ invs' = Append(invs, [v EXCEPT !.pc = "returned"])
                /\ UNCHANGED <<downloads, warnings, rejected, injections>>
           ELSE IF tab.missing
           THEN \* tab.id throws inside the try statement, the catch clause logs
                \* a warning, and tab.url throws after the fallback
                /\ warnings' = warnings + 1
                /\ invs' = Append(invs, [v EXCEPT !.pc = "rejected", !.result = Thrown,
                                                  !.contentMD = OrElse(selectionText, Empty)])
                /\ rejected' = rejected \cup {i}
                /\ UNCHANGED <<downloads, injections>>
           ELSE /\ invs' = Append(invs, [v EXCEPT !.injected = TRUE])
                /\ injections' = injections + 1
                /\ UNCHANGED <<downloads, warnings, rejected>>
    /\ UNCHANGED <<fvars, uvars, cvars>>

\* executeScript's promise resolves: contentMD = results[0]?.result, and the
\* listener runs to its end
InjectionResolves(i, results) ==
    /\ i \in DOMAIN invs
    /\ invs[i].pc = "awaiting"
    /\ Finish(i, [invs[i] EXCEPT !.result = FirstResult(results)], FirstResult(results))
    /\ UNCHANGED <<warnings, injections, fvars, uvars, cvars>>

\* executeScript's promise rejects: the catch clause logs a warning, contentMD
\* stays "", and the listener runs to its end
InjectionRejects(i) ==
    /\ i \in DOMAIN invs
    /\ invs[i].pc = "awaiting"
    /\ warnings' = warnings + 1
    /\ Finish(i, [invs[i] EXCEPT !.result = Thrown], Empty)
    /\ UNCHANGED <<injections, fvars, uvars, cvars>>

Next ==
    \/ \E m \in MenuItemIds, t \in SelectionTexts, tab \in Tabs : OnClicked(m, t, tab)
    \/ \E i \in 1..MaxClicks, r \in InjectionResults : InjectionResolves(i, r)
    \/ \E i \in 1..MaxClicks : InjectionRejects(i)

Spec == Init /\ [][Next]_vars

\* the downloads invocation i started
DownloadsOf(i) == {k \in DOMAIN downloads : downloads[k].inv = i}

\* the Markdown body of a saved document: what lies between the header's blank
\* line and the final newline
BodyOf(options) ==
    LET c == options.url
        k == CHOOSE j \in 1..(Len(c) - 1) :
                 /\ c[j] = NL /\ c[j + 1] = NL
                 /\ \A l \in 1..(j - 1) : ~(c[l] = NL /\ c[l + 1] = NL)
    IN  SubSeq(c, k + 2, Len(c) - 1)

\* the body the claim expects invocation v to save
ExpectedBody(v) ==
    IF v.result \notin {Thrown, Null, Undefined, Empty} THEN v.result
    ELSE IF v.selectionText = Undefined THEN Empty ELSE v.selectionText

\* C10: a click on "save-selection-md" reaches the download exactly once,
\* however the injection ended, with the Markdown result or else the selection
\* text as body, and no error leaves the handler; a click on another item
\* injects and downloads nothing
C10_AlwaysDownloads ==
    \A i \in DOMAIN invs :
        LET v == invs[i]
        IN  /\ v.menuItemId # sSaveSelectionMd =>
                  /\ v.pc = "returned"
                  /\ ~v.injected
                  /\ DownloadsOf(i) = {}
            /\ (v.menuItemId = sSaveSelectionMd /\ v.pc # "awaiting") =>
                  /\ i \notin rejected
                  /\ Cardinality(DownloadsOf(i)) = 1
                  /\ \A k \in DownloadsOf(i) : BodyOf(downloads[k].options) = ExpectedBody(v)

\* the same for the clicks that took place in a tab
InTabAlwaysDownloads ==
    \A i \in DOMAIN invs :
        LET v == invs[i]
        IN  /\ v.menuItemId # sSaveSelectionMd =>
                  /\ v.pc = "returned"
                  /\ ~v.injected
                  /\ DownloadsOf(i) = {}
            /\ (v.menuItemId = sSaveSelectionMd /\ v.pc # "awaiting" /\ ~v.tab.missing) =>
                  /\ i \notin rejected
                  /\ Cardinality(DownloadsOf(i)) = 1
                  /\ \A k \in DownloadsOf(i) : BodyOf(downloads[k].options) = ExpectedBody(v)

====
